---- MODULE Spec2Model ----
(***************************************************************************)
(* The constant-product pool of src/api/pool/Pool.ts.                      *)
(*                                                                         *)
(* A Pool is a snapshot of two token accounts (tokenA, tokenB), each with  *)
(* a mint and a balance, and a feeRatio.  Its methods are pure; they are   *)
(* the operators below, each taking the snapshot as its first parameter.   *)
(* The ledger operations that move the balances (createPool, deposit,      *)
(* withdraw, swap) are the ones pool.integration.test.ts drives.           *)
(*                                                                         *)
(* Numbers.  The source computes in IEEE doubles.  Balances and amounts    *)
(* are integers, and feeRatio is feeNumerator / FEE_DENOMINATOR with       *)
(* FEE_DENOMINATOR = 4, a power of two, so every product below is exact    *)
(* in doubles; the quotient invariant / newFromAmountInPool is rounded to  *)
(* a double, but for integers of this size (far below 2^26) a quotient     *)
(* that is not an integer is at least 1/newFromAmountInPool away from one, *)
(* which is more than the rounding error, so Math.ceil of the double is    *)
(* Math.ceil of the exact quotient.  The model therefore keeps the         *)
(* quotient as an exact fraction and rounds where the source rounds.       *)
(* 0 / 0 is NaN in the source: the result records carry a status for it.   *)
(***************************************************************************)
EXTENDS Integers, Sequences, FiniteSets, TLC

\* ------------------------------------------------------------------ bounds
\* createPool is tried with every tokenAAmount, tokenBAmount in 1..MaxReserve
MaxReserve == 3
\* every operation is tried with every amount in 0..MaxAmount
MaxAmount == 5
\* number of operations (calls and ledger operations) in one behaviour
MaxOps == 2

\* ------------------------------------------------ constants of the sources
EXPECTED_POOL_LIQUIDITY == 1000
EXPECTED_POOL_RATE == 2
FEE_NUMERATOR == 1
FEE_DENOMINATOR == 4

\* the mints of the pool's two token accounts, and a mint that is neither
mintA == "mintA"
mintB == "mintB"
mintOther == "mintOther"
Mints == {mintA, mintB, mintOther}

Amounts == 0..MaxAmount
FeeNumerators == 0..(FEE_DENOMINATOR - 1)

VARIABLES
    pool,             \* the pool's accounts on the ledger: tokenA, tokenB, feeNumerator
    poolTokenSupply,  \* the pool tokens in circulation
    last,             \* the last operation or call, with what it returned
    ops               \* operations so far

vars == <<pool, poolTokenSupply, last, ops>>

\* ----------------------------------------------------------- number helpers
\* Math.floor of the fraction n / d, d > 0
Floor(n, d) == n \div d

\* Math.ceil computed as floor: what a C-style integer port would write
CeilAsFloor(n, d) == n \div d

\* Math.ceil rounding an exact value up by one as well
CeilPlusOne(n, d) == (n \div d) + 1

\* Math.ceil of the fraction n / d, d > 0
Ceil(n, d) == -((-n) \div d)

\* a result of a method: status "ok" with the fraction value / den,
\* status "NaN" (the source returns NaN), or status "AssertionError" (it throws)
Result(status, value, den) == [status |-> status, value |-> value, den |-> den]
Ok(value) == Result("ok", value, 1)

\* ------------------------------------------------------------------ Pool.ts
Pool(tokenAAmount, tokenBAmount, feeNumerator) ==
    [tokenA |-> [mint |-> mintA, balance |-> tokenAAmount],
     tokenB |-> [mint |-> mintB, balance |-> tokenBAmount],
     feeNumerator |-> feeNumerator]

\* simpleRate dividing without the balance > 0 test: x / 0 is Infinity
\* and 0 / 0 is NaN
simpleRateUnguarded(p) ==
    IF p.tokenA.balance > 0
    THEN Result("ok", p.tokenB.balance, p.tokenA.balance)
    ELSE Result(IF p.tokenB.balance > 0 THEN "Infinity" ELSE "NaN", 0, 1)

simpleRate(p) ==
    IF p.tokenA.balance > 0
    THEN Result("ok", p.tokenB.balance, p.tokenA.balance)
    ELSE Ok(0)

getLiquidity(p) == p.tokenA.balance

\* the assertion left out: any token is taken for token A
validInputTokenAny(p, inputToken) == TRUE

\* the assertion of calculateAmountInOtherToken
validInputToken(p, inputToken) ==
    inputToken = p.tokenA.mint \/ inputToken = p.tokenB.mint

isReverse(p, inputToken) == p.tokenB.mint = inputToken

fromAmountInPool(p, inputToken) ==
    IF isReverse(p, inputToken) THEN p.tokenB.balance ELSE p.tokenA.balance

toAmountInPool(p, inputToken) ==
    IF isReverse(p, inputToken) THEN p.tokenA.balance ELSE p.tokenB.balance

\* grossToAmount = Math.ceil(toAmountInPool - invariant / newFromAmountInPool),
\* defined when newFromAmountInPool > 0; the difference is the exact fraction
\* (toAmountInPool * newFromAmountInPool - invariant) / newFromAmountInPool
grossToAmount(p, inputToken, inputAmount) ==
    LET from == fromAmountInPool(p, inputToken)
        to == toAmountInPool(p, inputToken)
        invariant == from * to
        newFromAmountInPool == from + inputAmount
    IN  Ceil(to * newFromAmountInPool - invariant, newFromAmountInPool)

\* the fees taken to be the part of the gross amount that is kept
feesOfKeptPart(p, gross) ==
    Floor(gross * (FEE_DENOMINATOR - p.feeNumerator), FEE_DENOMINATOR)

\* fees = Math.floor(grossToAmount * feeRatio)
fees(p, gross) == Floor(gross * p.feeNumerator, FEE_DENOMINATOR)

\* the fees added to the destination amount instead of subtracted
netToAmountAdded(gross, fee) == gross + fee

\* return grossToAmount - fees
netToAmount(gross, fee) == gross - fee

calculateAmountInOtherToken(p, inputToken, inputAmount) ==
    IF ~validInputToken(p, inputToken)
    THEN Result("AssertionError", 0, 1)
    ELSE IF fromAmountInPool(p, inputToken) + inputAmount = 0
    THEN Result("NaN", 0, 1)      \* invariant / 0 = 0 / 0
    ELSE LET gross == grossToAmount(p, inputToken, inputAmount)
         IN  Ok(netToAmount(gross, fees(p, gross)))

calculateTokenAAmount(p, tokenBAmount) ==
    calculateAmountInOtherToken(p, p.tokenB.mint, tokenBAmount)

calculateTokenBAmount(p, tokenAAmount) ==
    calculateAmountInOtherToken(p, p.tokenA.mint, tokenAAmount)

\* swappedAmount / fromAmount if fromAmount > 0, else 0 (also when the
\* swapped amount is NaN); the assertion propagates
impliedRate(p, fromToken, fromAmount) ==
    LET swappedAmount == calculateAmountInOtherToken(p, fromToken, fromAmount)
    IN  IF swappedAmount.status = "AssertionError" THEN swappedAmount
        ELSE IF fromAmount > 0
        THEN Result(swappedAmount.status, swappedAmount.value, fromAmount)
        ELSE Ok(0)

getTokenAValueOfPoolTokenAmount(p, poolTokenAmount) == poolTokenAmount

getTokenBValueOfPoolTokenAmount(p, poolTokenAmount) ==
    calculateTokenBAmount(p, getTokenAValueOfPoolTokenAmount(p, poolTokenAmount))

\* a pool-token value of twice the token-A amount
getPoolTokenValueDoubled(p, tokenAAmount) == 2 * tokenAAmount

getPoolTokenValueOfTokenAAmount(p, tokenAAmount) == tokenAAmount

\* -------------------------------------------------------------- the record
Op(op, token, amount, r) ==
    [op |-> op, token |-> token, amount |-> amount,
     status |-> r.status, value |-> r.value, den |-> r.den]

\* ------------------------------------------------------------------- Init
\* createPool: the donor's tokenAAmount and tokenBAmount become the pool's
\* balances and the wallet is awarded tokenAAmount pool tokens
createPool(tokenAAmount, tokenBAmount, feeNumerator) ==
    /\ pool = Pool(tokenAAmount, tokenBAmount, feeNumerator)
    /\ poolTokenSupply = getPoolTokenValueOfTokenAAmount(pool, tokenAAmount)
    /\ last = Op("createPool", mintA, tokenAAmount, Ok(tokenBAmount))
    /\ ops = 0

Init ==
    \/ createPool(EXPECTED_POOL_LIQUIDITY,
                  EXPECTED_POOL_LIQUIDITY * EXPECTED_POOL_RATE, FEE_NUMERATOR)
    \/ \E a \in 1..MaxReserve, b \in 1..MaxReserve, f \in FeeNumerators :
          createPool(a, b, f)

\* ---------------------------------------------------------------- actions
\* a pure call: the ledger is left alone
Call(op, token, amount, r) ==
    /\ ops < MaxOps
    /\ last' = Op(op, token, amount, r)
    /\ ops' = ops + 1
    /\ UNCHANGED <<pool, poolTokenSupply>>

CallCalculateAmountInOtherToken ==
    \E t \in Mints, x \in Amounts :
        Call("calculateAmountInOtherToken", t, x, calculateAmountInOtherToken(pool, t, x))

CallImpliedRate ==
    \E t \in Mints, x \in Amounts :
        Call("impliedRate", t, x, impliedRate(pool, t, x))

CallSimpleRate == Call("simpleRate", mintA, 0, simpleRate(pool))

CallGetLiquidity == Call("getLiquidity", mintA, 0, Ok(getLiquidity(pool)))

\* swap: fromAmount of the from token goes into the pool and the amount
\* calculateAmountInOtherToken gives comes out of the other side
Swap ==
    \E t \in {mintA, mintB}, x \in Amounts :
        LET r == calculateAmountInOtherToken(pool, t, x)
        IN  /\ ops < MaxOps
            /\ r.status = "ok"
            /\ pool' = IF isReverse(pool, t)
                       THEN [pool EXCEPT !.tokenB.balance = @ + x,
                                         !.tokenA.balance = @ - r.value]
                       ELSE [pool EXCEPT !.tokenA.balance = @ + x,
                                         !.tokenB.balance = @ - r.value]
            /\ last' = Op("swap", t, x, r)
            /\ ops' = ops + 1
            /\ UNCHANGED poolTokenSupply

\* deposit: fromAAmount of A with fromAAmount * rate() of B, for
\* getPoolTokenValueOfTokenAAmount(fromAAmount) pool tokens; the amounts on
\* the ledger are whole, so the deposit is made when the B amount is
Deposit ==
    \E x \in Amounts \ {0} :
        LET rate == simpleRate(pool)
        IN  /\ ops < MaxOps
            /\ (x * rate.value) % rate.den = 0
            /\ pool' = [pool EXCEPT !.tokenA.balance = @ + x,
                                    !.tokenB.balance = @ + (x * rate.value) \div rate.den]
            /\ poolTokenSupply' = poolTokenSupply + getPoolTokenValueOfTokenAAmount(pool, x)
            /\ last' = Op("deposit", mintA, x, Ok((x * rate.value) \div rate.den))
            /\ ops' = ops + 1

\* withdraw: fromPoolTokenAmount pool tokens are burned for
\* getTokenAValueOfPoolTokenAmount of A and getTokenBValueOfPoolTokenAmount of B
Withdraw ==
    \E n \in Amounts \ {0} :
        LET a == getTokenAValueOfPoolTokenAmount(pool, n)
            b == getTokenBValueOfPoolTokenAmount(pool, n)
        IN  /\ ops < MaxOps
            /\ n <= poolTokenSupply
            /\ a <= pool.tokenA.balance
            /\ b.status = "ok"
            /\ b.value <= pool.tokenB.balance
            /\ pool' = [pool EXCEPT !.tokenA.balance = @ - a,
                                    !.tokenB.balance = @ - b.value]
            /\ poolTokenSupply' = poolTokenSupply - n
            /\ last' = Op("withdraw", mintA, n, b)
            /\ ops' = ops + 1

Next ==
    \/ CallCalculateAmountInOtherToken
    \/ CallImpliedRate
    \/ CallSimpleRate
    \/ CallGetLiquidity
    \/ Swap
    \/ Deposit
    \/ Withdraw

Spec == Init /\ [][Next]_vars

TypeOK ==
    /\ pool.tokenA.balance \in Nat
    /\ pool.tokenB.balance \in Nat
    /\ pool.feeNumerator \in FeeNumerators
    /\ poolTokenSupply \in Nat
    /\ ops \in 0..MaxOps

\* ------------------------------------------------------------------ claims
\* the pool the integration test creates
TestPool(tokenAAmount, tokenBAmount) == Pool(tokenAAmount, tokenBAmount, FEE_NUMERATOR)

\* C1: on the pool (1000, 2000, feeRatio 1/4) a swap of 5 A has gross output
\* 10, fee 2, net output 8 and moves the balances to (1005, 1992); a swap of
\* 5 B on that pool has net output 3 and moves the balances to (1002, 1997).
C1_SwapScenario ==
    [][ /\ ( /\ pool = TestPool(1000, 2000)
             /\ ops' = ops + 1
             /\ last'.op = "swap" /\ last'.token = mintA /\ last'.amount = 5 )
           => ( /\ grossToAmount(pool, mintA, 5) = 10
                /\ fees(pool, grossToAmount(pool, mintA, 5)) = 2
                /\ last'.status = "ok" /\ last'.value = 8
                /\ pool' = TestPool(1005, 1992) )
        /\ ( /\ pool = TestPool(1005, 1992)
             /\ ops' = ops + 1
             /\ last'.op = "swap" /\ last'.token = mintB /\ last'.amount = 5 )
           => ( /\ last'.status = "ok" /\ last'.value = 3
                /\ pool' = TestPool(1002, 1997) )
      ]_vars

C1_Witness ==
    /\ ops = 2
    /\ last.op = "swap" /\ last.token = mintB /\ last.amount = 5 /\ last.value = 3
    /\ pool = TestPool(1002, 1997)

\* C2: calculateAmountInOtherToken on a pool whose from-side balance is 0
\* fails with EmptyPool, whatever the input amount and the to-side balance.
C2_EmptyPoolFails ==
    ( /\ last.op = "calculateAmountInOtherToken"
      /\ validInputToken(pool, last.token)
      /\ fromAmountInPool(pool, last.token) = 0 )
    => last.status = "EmptyPool"

\* C3: calculateAmountInOtherToken with a token that is neither of the pool's
\* mints fails with the assertion, for every amount (0 included) and every
\* balance; it returns a number only for the mint of token A or of token B.
C3_InvalidAsset ==
    last.op = "calculateAmountInOtherToken"
    => /\ last.token \notin {pool.tokenA.mint, pool.tokenB.mint}
          => last.status = "AssertionError"
       /\ last.status = "ok"
          => last.token \in {pool.tokenA.mint, pool.tokenB.mint}

C3_Witness ==
    /\ last.op = "calculateAmountInOtherToken"
    /\ last.token = mintOther /\ last.amount = 0
    /\ last.status = "AssertionError"
    /\ pool.tokenA.balance = 0

\* the case of C4: the last operation swapped last.amount > 0 of A for
\* last.value of B on a pool whose balances were positive
SwappedAForB ==
    /\ last.op = "swap" /\ last.token = mintA /\ last.amount > 0
    /\ pool.tokenA.balance - last.amount > 0
    /\ pool.tokenB.balance + last.value > 0

\* C4 as stated: swapping the B received back for A on the pool as the first
\* swap left it returns at most the amount of A first put in.
C4_RoundTripNoGain ==
    SwappedAForB
    => LET back == calculateTokenAAmount(pool, last.value)
       IN  back.status = "ok" /\ back.value <= last.amount

\* C4 as amended: the amount of A returned is less than
\* amount + 1 + (reserveA + amount) / reserveB, with reserveA, reserveB the
\* balances before the first swap (pool.tokenA.balance is reserveA + amount).
C4_RoundTripBound ==
    SwappedAForB
    => LET back == calculateTokenAAmount(pool, last.value)
       IN  /\ back.status = "ok"
           /\ (back.value - last.amount - 1) * (pool.tokenB.balance + last.value)
                < pool.tokenA.balance

C4_Witness ==
    /\ SwappedAForB
    /\ calculateTokenAAmount(pool, last.value).value > last.amount

C6_DepositWithdrawRestores ==
    [][ ( /\ last.op = "deposit"
          /\ ops' = ops + 1
          /\ last'.op = "withdraw" /\ last'.amount = last.amount )
        => ( /\ pool'.tokenA.balance = pool.tokenA.balance - last.amount
             /\ pool'.tokenB.balance = pool.tokenB.balance - last.value
             /\ pool'.tokenB.balance * pool.tokenA.balance
                  = pool.tokenB.balance * pool'.tokenA.balance )
      ]_vars

\* the case of C7 to C9: the last call priced last.amount of last.token
Priced(token) ==
    /\ last.op = "calculateAmountInOtherToken"
    /\ last.token = token
    /\ last.status = "ok"

PositiveReserves == pool.tokenA.balance > 0 /\ pool.tokenB.balance > 0

\* reserveA * reserveB less (reserveA + amount) * (reserveB - grossToAmount)
ProductLoss(amount) ==
    pool.tokenA.balance * pool.tokenB.balance
      - (pool.tokenA.balance + amount)
          * (pool.tokenB.balance - grossToAmount(pool, mintA, amount))

\* C7 as stated: for positive balances and an input of A, the product
\* (reserveA + amount) * (reserveB - grossToAmount) differs from
\* reserveA * reserveB by at most 1.
C7_ProductWithinOne ==
    (Priced(mintA) /\ PositiveReserves)
    => ProductLoss(last.amount) \in -1..1

\* C7 as amended: the product after the swap is never above the product
\* before it and falls short of it by less than reserveA + amount, what one
\* unit of output is worth at the new balance of A.
C7_ProductWithinOneUnitOfOutput ==
    (Priced(mintA) /\ PositiveReserves)
    => /\ 0 <= ProductLoss(last.amount)
       /\ ProductLoss(last.amount) < pool.tokenA.balance + last.amount

C7_Witness ==
    /\ Priced(mintA) /\ PositiveReserves
    /\ ProductLoss(last.amount) > 1

\* the case of C8: the last call was impliedRate for last.amount > 0 of A on
\* positive balances; its result is the fraction last.value / last.den
ImpliedRateOfA ==
    /\ last.op = "impliedRate" /\ last.token = mintA /\ last.amount > 0
    /\ last.status = "ok"
    /\ PositiveReserves

\* C8 as stated: with feeRatio > 0 the implied rate is strictly below rate():
\* swapped * reserveA < fromAmount * reserveB.
C8_ImpliedRateBelowRate ==
    (ImpliedRateOfA /\ pool.feeNumerator > 0)
    => last.value * pool.tokenA.balance < last.den * pool.tokenB.balance

\* C8 as amended: for every feeRatio the implied rate is strictly below
\* rate() + 1 / fromAmount: (swapped - 1) * reserveA < fromAmount * reserveB.
C8_ImpliedRateBelowRatePlusUnit ==
    ImpliedRateOfA
    => /\ last.den = last.amount
       /\ last.value = calculateTokenBAmount(pool, last.amount).value
       /\ (last.value - 1) * pool.tokenA.balance < last.den * pool.tokenB.balance

C8_Witness ==
    /\ ImpliedRateOfA /\ pool.feeNumerator > 0
    /\ last.value * pool.tokenA.balance >= last.den * pool.tokenB.balance

\* the pool with another fee ratio
WithFee(f) == [pool EXCEPT !.feeNumerator = f]

\* C9: for fixed balances, input token and input amount the output does not
\* grow with feeRatio, and with feeRatio 0 it is the gross amount.
C9_FeeMonotone ==
    \A t \in {mintA, mintB} :
        Priced(t)
        => /\ \A f1, f2 \in FeeNumerators :
                f1 <= f2
                => calculateAmountInOtherToken(WithFee(f2), t, last.amount).value
                     <= calculateAmountInOtherToken(WithFee(f1), t, last.amount).value
           /\ calculateAmountInOtherToken(WithFee(0), t, last.amount).value
                = grossToAmount(pool, t, last.amount)
           /\ last.value = calculateAmountInOtherToken(pool, t, last.amount).value
           /\ pool.feeNumerator = 0 => last.value = grossToAmount(pool, t, last.amount)

C9_Witness ==
    /\ Priced(mintB)
    /\ pool.feeNumerator > 0
    /\ last.value < grossToAmount(pool, mintB, last.amount)
    /\ last.value > calculateAmountInOtherToken(WithFee(3), mintB, last.amount).value

\* C10: simpleRate returns tokenB.balance / tokenA.balance when tokenA.balance
\* is positive and 0, with no error, when it is 0; getLiquidity returns
\* tokenA.balance.
C10_RateTotal ==
    /\ last.op = "simpleRate"
       => /\ last.status = "ok"
          /\ last.den > 0
          /\ IF pool.tokenA.balance > 0
             THEN last.value * pool.tokenA.balance = pool.tokenB.balance * last.den
             ELSE last.value = 0
    /\ last.op = "getLiquidity"
       => last.status = "ok" /\ last.value = pool.tokenA.balance /\ last.den = 1

C10_Witness ==
    /\ last.op = "simpleRate"
    /\ pool.tokenA.balance = 0 /\ pool.tokenB.balance > 0
    /\ last.status = "ok" /\ last.value = 0

\* C11: for positive balances, every fee ratio and every input amount of
\* either token, 0 <= net output <= gross output <= the to-side balance; so
\* both balances stay >= 0 under any sequence of swaps, and computing the
\* output leaves the balances and the fee ratio as they were.
C11_OutputBounded ==
    /\ [](\A t \in {mintA, mintB} :
            (Priced(t) /\ PositiveReserves)
            => /\ 0 <= last.value
               /\ last.value <= grossToAmount(pool, t, last.amount)
               /\ grossToAmount(pool, t, last.amount) <= toAmountInPool(pool, t))
    /\ [](pool.tokenA.balance >= 0 /\ pool.tokenB.balance >= 0)
    /\ [][ /\ last'.op = "swap" => last'.status = "ok" /\ last'.value >= 0
           /\ (ops' = ops + 1 /\ last'.op = "calculateAmountInOtherToken")
              => pool' = pool
         ]_vars

\* a swap that took the whole to-side balance: the gross output at its bound
C11_Witness ==
    /\ last.op = "swap" /\ last.token = mintA
    /\ last.value > 0
    /\ pool.tokenB.balance = 0
    /\ pool.tokenA.balance - last.amount > 0

====
